---- MODULE Spec2Model ----
(***************************************************************************)
(* Model of src/python/audio_check.py: an interactive shell that probes    *)
(* audio files with ffprobe and classifies their sample rate.              *)
(*                                                                         *)
(* Text is modelled as a sequence of one-character strings.  A Python      *)
(* value that may be None is a record [kind, v, exc]: kind = "none" is     *)
(* None, kind = "int" carries the integer v, kind = "raise" is an          *)
(* exception of class exc leaving the function.                            *)
(***************************************************************************)
EXTENDS Integers, Sequences, FiniteSets, TLC

\* ------------------------------------------------------------------ bounds
MaxFiles == 3
MaxInputLen == 2
MaxChoiceLen == 2
ClassifyRadius == 30

VARIABLES
    pc,            \* position of the single control thread
    exit_code,     \* process exit status, -1 while running
    preflight,     \* what the ffprobe -version call did: "pending" before it, then "ok" | "nonzero" | "notfound"
    out,           \* lines printed since the menu was last displayed
    last_prompt,   \* which input() call returned last: "none" | "menu" | "file" | "folder"
    cancelled,     \* whether that input() call raised KeyboardInterrupt or EOFError
    choice,        \* main: the local choice
    path,          \* check_single_file: the local path; main: the local folder
    flow,          \* sub-flow the thread is in: "none" | "single" | "folder"
    audio_files,   \* scan_folder: the sorted list of discovered files
    i,             \* scan_folder: number of loop iterations completed
    hi_res_count,  \* scan_folder
    total_valid,   \* scan_folder
    results,       \* scan_folder: <<file, sr>> of each completed iteration
    probes,        \* get_sample_rate calls since the menu was last displayed
    probe_in,      \* what the last ffprobe child process did
    probe_res,     \* what the last get_sample_rate call produced
    c_in,          \* classify_sr taken alone: its argument
    c_out          \* classify_sr taken alone: its result, "unset" before the call

vars == <<pc, exit_code, preflight, out, last_prompt, cancelled, choice, path, flow,
          audio_files, i, hi_res_count, total_valid, results,
          probes, probe_in, probe_res, c_in, c_out>>

scanvars == <<audio_files, i, hi_res_count, total_valid, results>>
purevars == <<c_in, c_out>>

\* ------------------------------------------------------- Python values
NoneVal == [kind |-> "none", v |-> 0, exc |-> ""]
IntVal(n) == [kind |-> "int", v |-> n, exc |-> ""]
Raise(e) == [kind |-> "raise", v |-> 0, exc |-> e]

Line(msg, file, n) == [msg |-> msg, file |-> file, n |-> n]

Has(lines, msg) == \E k \in 1..Len(lines) : lines[k].msg = msg

\* ------------------------------------------------------- str.strip
Whitespace == {" "}
Quotes == {"'", "\""}

RECURSIVE lstrip(_, _)
lstrip(s, cs) ==
    IF s # <<>> /\ Head(s) \in cs THEN lstrip(Tail(s), cs) ELSE s

RECURSIVE rstrip(_, _)
rstrip(s, cs) ==
    IF s # <<>> /\ s[Len(s)] \in cs THEN rstrip(SubSeq(s, 1, Len(s) - 1), cs) ELSE s

strip(s, cs) == rstrip(lstrip(s, cs), cs)

\* ------------------------------------------------------- int(str)
Digits == {"0", "1", "2", "3", "4", "5", "6", "7", "8", "9"}

DigitVal(c) ==
    CASE c = "0" -> 0 [] c = "1" -> 1 [] c = "2" -> 2 [] c = "3" -> 3
      [] c = "4" -> 4 [] c = "5" -> 5 [] c = "6" -> 6 [] c = "7" -> 7
      [] c = "8" -> 8 [] c = "9" -> 9

RECURSIVE DecVal(_)
DecVal(s) ==
    IF s = <<>> THEN 0 ELSE 10 * DecVal(SubSeq(s, 1, Len(s) - 1)) + DigitVal(s[Len(s)])

AllDigits(s) == s # <<>> /\ \A k \in 1..Len(s) : s[k] \in Digits

\* int(text): an optional sign followed by decimal digits, else ValueError
py_int_str(text) ==
    LET t == strip(text, Whitespace) IN
    IF t # <<>> /\ Head(t) = "-" /\ AllDigits(Tail(t)) THEN IntVal(0 - DecVal(Tail(t)))
    ELSE IF t # <<>> /\ Head(t) = "+" /\ AllDigits(Tail(t)) THEN IntVal(DecVal(Tail(t)))
    ELSE IF AllDigits(t) THEN IntVal(DecVal(t))
    ELSE Raise("ValueError")

\* ------------------------------------------------------- the ffprobe child process
\* What subprocess.run and json.loads can hand to get_sample_rate:
\*   proc    : "notfound" (no executable), "nonzero" (exit status # 0), "ok"
\*   top     : json.loads(stdout): "malformed", "array", "null", "object"
\*   streams : the value under "streams": "absent", "empty" ([]), "objects"
\*             (a list whose first element is an object), "numbers" (a list
\*             of numbers), "string" (a non-empty string), "dict" (an object)
\*   field   : streams[0]["sample_rate"]: "absent", "null", "string", "number"
Outcome(proc, top, streams, field, text, num) ==
    [proc |-> proc, top |-> top, streams |-> streams, field |-> field,
     text |-> text, num |-> num]

NoProbe == Outcome("none", "malformed", "absent", "absent", <<>>, 0)

RateTexts ==
    { <<"4", "4", "1", "0", "0">>, <<"4", "4", "1", "0", "1">>,
      <<"0">>, <<"-", "1">>, <<"N", "/", "A">>, <<>> }

RateNumbers == {48000}

ProbeOutcomes ==
    { Outcome("notfound", "malformed", "absent", "absent", <<>>, 0),
      Outcome("nonzero", "malformed", "absent", "absent", <<>>, 0),
      Outcome("ok", "malformed", "absent", "absent", <<>>, 0),
      Outcome("ok", "array", "absent", "absent", <<>>, 0),
      Outcome("ok", "null", "absent", "absent", <<>>, 0),
      Outcome("ok", "object", "absent", "absent", <<>>, 0),
      Outcome("ok", "object", "empty", "absent", <<>>, 0),
      Outcome("ok", "object", "numbers", "absent", <<>>, 0),
      Outcome("ok", "object", "string", "absent", <<>>, 0),
      Outcome("ok", "object", "dict", "absent", <<>>, 0),
      Outcome("ok", "object", "objects", "absent", <<>>, 0),
      Outcome("ok", "object", "objects", "null", <<>>, 0) }
    \cup { Outcome("ok", "object", "objects", "string", t, 0) : t \in RateTexts }
    \cup { Outcome("ok", "object", "objects", "number", <<>>, n) : n \in RateNumbers }

\* the exception classes of the except clause
Caught ==
    {"CalledProcessError", "JSONDecodeError", "ValueError", "IndexError", "KeyError"}

\* int(streams[0]["sample_rate"])
py_int(o) ==
    CASE o.field = "string" -> py_int_str(o.text)
      [] o.field = "number" -> IntVal(o.num)
      [] OTHER -> Raise("TypeError")

\* the body of the try block: a value, None (falling out of the if), or the
\* exception the first failing statement raises
try_body(o) ==
    IF o.proc = "notfound" THEN Raise("FileNotFoundError")
    ELSE IF o.proc = "nonzero" THEN Raise("CalledProcessError")
    ELSE IF o.top = "malformed" THEN Raise("JSONDecodeError")
    ELSE IF o.top # "object" THEN Raise("AttributeError")
    ELSE CASE o.streams \in {"absent", "empty"} -> NoneVal
           [] o.streams = "string" -> NoneVal
           [] o.streams = "dict" -> Raise("KeyError")
           [] o.streams = "numbers" -> Raise("TypeError")
           [] OTHER -> IF o.field = "absent" THEN NoneVal ELSE py_int(o)

get_sample_rate(o) ==
    LET r == try_body(o) IN
    IF r.kind = "raise" /\ r.exc \in Caught THEN NoneVal ELSE r

\* ------------------------------------------------------- classifier, reporter
\* "sr and sr > 44100": None and 0 are falsy
classify_sr_strict(sr) ==
    IF sr.kind = "int" /\ sr.v # 0 /\ sr.v >= 44100 THEN "HI-RES" ELSE "Standard"

classify_sr(sr) ==
    IF sr.kind = "int" /\ sr.v # 0 /\ sr.v > 44100 THEN "HI-RES" ELSE "Standard"

print_result(f, sr) ==
    IF sr.kind = "none"
    THEN [ok |-> FALSE, line |-> Line("Failed", f, 0)]
    ELSE [ok |-> TRUE, line |-> Line(classify_sr(sr), f, sr.v)]

\* ------------------------------------------------------- console input, file system
Strings(alphabet, maxlen) == UNION { [1..n -> alphabet] : n \in 0..maxlen }

MenuChars == {" ", "0", "1", "2"}
PathChars == {" ", "'", "f", "d"}

Typed(text) == [intr |-> FALSE, text |-> text]
Interrupted == [intr |-> TRUE, text |-> <<>>]

MenuInputs == {Interrupted} \cup { Typed(t) : t \in Strings(MenuChars, MaxChoiceLen) }
PathInputs == {Interrupted} \cup { Typed(t) : t \in Strings(PathChars, MaxInputLen) }

\* the file system the user points at: "f" is a regular file, "d" a directory
is_file(p) == p = <<"f">>
is_dir(p) == p = <<"d">>

\* a directory tree: listing[k] is the suffix of the k-th path in path
\* order, or "-" when the tree has no such entry
Suffixes == {".flac", ".MP3", ".txt"}
Listings == [1..MaxFiles -> Suffixes \cup {"-"}]

extensions == {".flac", ".mp3", ".m4a", ".wav", ".aac", ".ogg", ".opus"}

lower(e) == CASE e = ".MP3" -> ".mp3" [] OTHER -> e

RECURSIVE sorted(_)
sorted(S) ==
    IF S = {} THEN <<>>
    ELSE LET m == CHOOSE x \in S : \A y \in S : x <= y
         IN <<m>> \o sorted(S \ {m})

discover(listing) ==
    sorted({ k \in 1..MaxFiles :
               listing[k] # "-" /\ lower(listing[k]) \in extensions })

\* ------------------------------------------------------- initial state
Init ==
    /\ pc = "preflight"
    /\ exit_code = -1
    /\ preflight = "pending"
    /\ out = <<>>
    /\ last_prompt = "none"
    /\ cancelled = FALSE
    /\ choice = <<>>
    /\ path = <<>>
    /\ flow = "none"
    /\ audio_files = <<>>
    /\ i = 0
    /\ hi_res_count = 0
    /\ total_valid = 0
    /\ results = <<>>
    /\ probes = 0
    /\ probe_in = NoProbe
    /\ probe_res = NoneVal
    /\ c_in = NoneVal
    /\ c_out = "unset"

\* the locals of a sub-flow are gone once it has returned
ScanReset ==
    /\ audio_files' = <<>>
    /\ i' = 0
    /\ hi_res_count' = 0
    /\ total_valid' = 0
    /\ results' = <<>>

ProbeReset ==
    /\ probes' = 0
    /\ probe_in' = NoProbe
    /\ probe_res' = NoneVal

\* ------------------------------------------------------- __main__
PreflightOutcomes == {"ok", "nonzero", "notfound"}

\* subprocess.run(["ffprobe", "-version"], capture_output=True, check=True)
version_query(res) ==
    CASE res = "notfound" -> Raise("FileNotFoundError")
      [] res = "nonzero" -> Raise("CalledProcessError")
      [] OTHER -> NoneVal

preflight_caught_no_enoent == {"CalledProcessError"}

preflight_caught == {"CalledProcessError", "FileNotFoundError"}

\* the try/except of __main__, then main() up to the first menu display
Preflight(res) ==
    /\ pc = "preflight"
    /\ preflight' = res
    /\ LET r == version_query(res) IN
       IF r.kind # "raise"
       THEN /\ pc' = "menu"
            /\ out' = <<Line("banner", 0, 0)>>
            /\ UNCHANGED exit_code
       ELSE IF r.exc \in preflight_caught
       THEN /\ pc' = "exited"
            /\ exit_code' = 1
            /\ out' = <<Line("ffprobe_missing", 0, 0)>>
       ELSE /\ pc' = "exited"
            /\ exit_code' = 1
            /\ out' = <<Line("traceback", 0, 0)>>
    /\ UNCHANGED <<last_prompt, cancelled, choice, path, flow, scanvars,
                   probes, probe_in, probe_res, purevars>>

\* ------------------------------------------------------- main
\* the except (KeyboardInterrupt, EOFError) handlers of the three input() calls
on_cancel_menu == [farewell |-> TRUE, exits |-> TRUE]
on_cancel_folder == [farewell |-> FALSE, exits |-> FALSE]

on_cancel_file_silent == [farewell |-> FALSE, exits |-> FALSE]

on_cancel_file == [farewell |-> TRUE, exits |-> TRUE]

Cancelled(printed, h) ==
    /\ out' = printed \o (IF h.farewell THEN <<Line("farewell", 0, 0)>> ELSE <<>>)
    /\ IF h.exits
       THEN pc' = "exited" /\ exit_code' = 0
       ELSE pc' = "menu" /\ UNCHANGED exit_code

dispatch_no_quit(ch) ==
    IF ch = <<"1">> THEN "single"
    ELSE IF ch = <<"2">> THEN "folder"
    ELSE "invalid"

dispatch(ch) ==
    IF ch = <<"1">> THEN "single"
    ELSE IF ch = <<"2">> THEN "folder"
    ELSE IF ch = <<"0">> THEN "quit"
    ELSE "invalid"

\* one turn of the while loop: display the menu, read the choice, branch,
\* up to the next input() call
MenuChoice(inp) ==
    /\ pc = "menu"
    /\ last_prompt' = "menu"
    /\ cancelled' = inp.intr
    /\ choice' = strip(inp.text, Whitespace)
    /\ path' = <<>>
    /\ ScanReset
    /\ ProbeReset
    /\ LET shown == <<Line("menu", 0, 0)>>
           d == dispatch(choice')
       IN IF inp.intr
          THEN /\ Cancelled(shown, on_cancel_menu)
               /\ flow' = "none"
          ELSE CASE d = "single" ->
                      /\ out' = shown \o <<Line("prompt_file", 0, 0)>>
                      /\ pc' = "single_path"
                      /\ flow' = "single"
                      /\ UNCHANGED exit_code
                 [] d = "folder" ->
                      /\ out' = shown \o <<Line("prompt_folder", 0, 0)>>
                      /\ pc' = "folder_path"
                      /\ flow' = "folder"
                      /\ UNCHANGED exit_code
                 [] d = "quit" ->
                      /\ out' = shown \o <<Line("thanks", 0, 0)>>
                      /\ pc' = "exited"
                      /\ exit_code' = 0
                      /\ flow' = "none"
                 [] OTHER ->
                      /\ out' = shown \o <<Line("invalid_choice", 0, 0)>>
                      /\ pc' = "menu"
                      /\ flow' = "none"
                      /\ UNCHANGED exit_code
    /\ UNCHANGED <<preflight, purevars>>

\* ------------------------------------------------------- check_single_file
CheckSingleFile(inp, o) ==
    /\ pc = "single_path"
    /\ last_prompt' = "file"
    /\ cancelled' = inp.intr
    /\ UNCHANGED <<preflight, choice, flow, scanvars, purevars>>
    /\ IF inp.intr
       THEN /\ Cancelled(out, on_cancel_file)
            /\ path' = <<>>
            /\ UNCHANGED <<probes, probe_in, probe_res>>
       ELSE LET p == strip(strip(inp.text, Whitespace), Quotes) IN
            /\ path' = p
            /\ IF p = <<>>
               THEN /\ out' = out \o <<Line("error_empty_path", 0, 0)>>
                    /\ pc' = "menu"
                    /\ UNCHANGED <<exit_code, probes, probe_in, probe_res>>
               ELSE IF ~is_file(p)
               THEN /\ out' = out \o <<Line("error_no_file", 0, 0)>>
                    /\ pc' = "menu"
                    /\ UNCHANGED <<exit_code, probes, probe_in, probe_res>>
               ELSE LET sr == get_sample_rate(o)
                        header == <<Line("analysing", 1, 0)>>
                    IN /\ probes' = probes + 1
                       /\ probe_in' = o
                       /\ probe_res' = sr
                       /\ IF sr.kind = "raise"
                          THEN /\ pc' = "exited"
                               /\ exit_code' = 1
                               /\ out' = out \o header \o <<Line("traceback", 0, 0)>>
                          ELSE /\ pc' = "menu"
                               /\ UNCHANGED exit_code
                               /\ out' = out \o header \o <<print_result(1, sr).line>>
                                           \o (IF sr.kind = "none" THEN <<>>
                                               ELSE IF classify_sr(sr) = "HI-RES"
                                               THEN <<Line("congrats_hires", 0, 0)>>
                                               ELSE <<Line("info_standard", 0, 0)>>)

\* ------------------------------------------------------- scan_folder
\* the counters of one loop iteration
tally_ge(ok, sr, tv, hr) ==
    IF ~ok THEN [total_valid |-> tv, hi_res_count |-> hr]
    ELSE [total_valid |-> tv + 1,
          hi_res_count |-> IF sr.v >= 44100 THEN hr + 1 ELSE hr]

tally(ok, sr, tv, hr) ==
    IF ~ok THEN [total_valid |-> tv, hi_res_count |-> hr]
    ELSE [total_valid |-> tv + 1,
          hi_res_count |-> IF sr.v > 44100 THEN hr + 1 ELSE hr]

progress(k, n) ==
    IF k % 10 = 0 \/ k = n THEN <<Line("progress", 0, k)>> ELSE <<>>

\* hi_res_count / total_valid * 100 with one decimal, in tenths of a percent
ratio(tv, hr) == (2000 * hr + tv) \div (2 * tv)

summary_on_valid(n, tv, hr) ==
    <<Line("done", 0, 0), Line("valid", 0, tv), Line("hires", 0, hr)>>
    \o (IF tv > 0 THEN <<Line("ratio", 0, ratio(tv, hr))>> ELSE <<>>)
    \o (IF tv > 0 THEN <<Line("failed_count", 0, n - tv)>> ELSE <<>>)

summary(n, tv, hr) ==
    <<Line("done", 0, 0), Line("valid", 0, tv), Line("hires", 0, hr)>>
    \o (IF tv > 0 THEN <<Line("ratio", 0, ratio(tv, hr))>> ELSE <<>>)
    \o (IF n # tv THEN <<Line("failed_count", 0, n - tv)>> ELSE <<>>)

\* the folder branch of main: read the path, then scan_folder up to its
\* first probe
FolderPath(inp, listing) ==
    /\ pc = "folder_path"
    /\ last_prompt' = "folder"
    /\ cancelled' = inp.intr
    /\ UNCHANGED <<preflight, choice, flow, probes, probe_in, probe_res, purevars>>
    /\ IF inp.intr
       THEN /\ Cancelled(out, on_cancel_folder)
            /\ path' = <<>>
            /\ UNCHANGED scanvars
       ELSE LET folder == strip(strip(inp.text, Whitespace), Quotes) IN
            /\ path' = folder
            /\ UNCHANGED exit_code
            /\ IF folder = <<>>
               THEN /\ pc' = "menu"
                    /\ UNCHANGED <<out, scanvars>>
               ELSE IF ~is_dir(folder)
               THEN /\ out' = out \o <<Line("error_not_dir", 0, 0)>>
                    /\ pc' = "menu"
                    /\ UNCHANGED scanvars
               ELSE LET found == discover(listing) IN
                    IF found = <<>>
                    THEN /\ out' = out \o <<Line("scanning", 0, 0), Line("no_audio", 0, 0)>>
                         /\ pc' = "menu"
                         /\ UNCHANGED scanvars
                    ELSE /\ out' = out \o <<Line("scanning", 0, 0),
                                            Line("found", 0, Len(found))>>
                         /\ pc' = "scan"
                         /\ audio_files' = found
                         /\ i' = 0
                         /\ hi_res_count' = 0
                         /\ total_valid' = 0
                         /\ results' = <<>>

\* one iteration of the for loop; the last one runs on into the summary
ScanStep(o) ==
    /\ pc = "scan"
    /\ i < Len(audio_files)
    /\ LET f == audio_files[i + 1]
           sr == get_sample_rate(o)
       IN /\ probes' = probes + 1
          /\ probe_in' = o
          /\ probe_res' = sr
          /\ IF sr.kind = "raise"
             THEN /\ pc' = "exited"
                  /\ exit_code' = 1
                  /\ out' = out \o <<Line("traceback", 0, 0)>>
                  /\ UNCHANGED scanvars
             ELSE LET pr == print_result(f, sr)
                      t == tally(pr.ok, sr, total_valid, hi_res_count)
                      n == Len(audio_files)
                  IN /\ total_valid' = t.total_valid
                     /\ hi_res_count' = t.hi_res_count
                     /\ i' = i + 1
                     /\ results' = Append(results, [file |-> f, sr |-> sr])
                     /\ UNCHANGED <<audio_files, exit_code>>
                     /\ IF i + 1 < n
                        THEN /\ pc' = "scan"
                             /\ out' = out \o <<pr.line>> \o progress(i + 1, n)
                        ELSE /\ pc' = "menu"
                             /\ out' = out \o <<pr.line>> \o progress(i + 1, n)
                                         \o summary(n, t.total_valid, t.hi_res_count)
    /\ UNCHANGED <<preflight, last_prompt, cancelled, choice, path, flow, purevars>>

\* ------------------------------------------------------- the program
Next ==
    \/ \E res \in PreflightOutcomes : Preflight(res)
    \/ \E inp \in MenuInputs : MenuChoice(inp)
    \/ \E inp \in PathInputs, o \in ProbeOutcomes : CheckSingleFile(inp, o)
    \/ \E inp \in PathInputs, listing \in Listings : FolderPath(inp, listing)
    \/ \E o \in ProbeOutcomes : ScanStep(o)

Spec == Init /\ [][Next]_vars

\* ------------------------------------------------------- classify_sr taken alone
ClassifyInputs ==
    {NoneVal}
    \cup { IntVal(r) : r \in (0 - ClassifyRadius)..ClassifyRadius }
    \cup { IntVal(r) : r \in (44100 - ClassifyRadius)..(44100 + ClassifyRadius) }

InitClassify ==
    /\ pc = "preflight"
    /\ exit_code = -1
    /\ preflight = "pending"
    /\ out = <<>>
    /\ last_prompt = "none"
    /\ cancelled = FALSE
    /\ choice = <<>>
    /\ path = <<>>
    /\ flow = "none"
    /\ audio_files = <<>>
    /\ i = 0
    /\ hi_res_count = 0
    /\ total_valid = 0
    /\ results = <<>>
    /\ probes = 0
    /\ probe_in = NoProbe
    /\ probe_res = NoneVal
    /\ c_in \in ClassifyInputs
    /\ c_out = "unset"

Classify ==
    /\ c_out = "unset"
    /\ c_out' = classify_sr(c_in)
    /\ UNCHANGED <<pc, exit_code, preflight, out, last_prompt, cancelled, choice, path,
                   flow, scanvars, probes, probe_in, probe_res, c_in>>

NextClassify == Classify

SpecClassify == InitClassify /\ [][NextClassify]_vars

\* ======================================================= properties
Running == {"menu", "single_path", "folder_path", "scan"}

\* streams[0].sample_rate is there and is a number or the text of one
NumericField(o) ==
    /\ o.proc = "ok" /\ o.top = "object" /\ o.streams = "objects"
    /\ \/ o.field = "number"
       \/ /\ o.field = "string"
          /\ LET t == IF o.text # <<>> /\ Head(o.text) \in {"-", "+"}
                      THEN Tail(o.text) ELSE o.text
             IN t # <<>> /\ \A k \in 1..Len(t) : t[k] \in Digits

\* C1: get_sample_rate never raises to its caller: whatever the ffprobe child
\* process did (not found, non-zero exit, malformed JSON, JSON of another
\* shape, missing or non-numeric sample_rate, no audio stream) the result is
\* None, and it is an integer only when streams[0].sample_rate is present
\* and numeric.
C1_NeverRaises ==
    probe_in.proc # "none" =>
        /\ probe_res.kind # "raise"
        /\ probe_res.kind = "int" <=> NumericField(probe_in)

\* C2 as stated: an interrupt terminates the program with a farewell only at
\* the menu prompt; at the path prompt of either sub-flow the program keeps
\* running and control returns silently to the menu.
C2_InterruptOnlyMenuExits ==
    cancelled =>
        /\ last_prompt = "menu" =>
              pc = "exited" /\ Has(out, "farewell")
        /\ last_prompt \in {"file", "folder"} =>
              pc = "menu" /\ exit_code = -1 /\ ~Has(out, "farewell")

\* C2 amended: an interrupt at the menu prompt or at the file-path prompt of
\* the single-file flow prints a farewell and terminates the program with
\* status 0; an interrupt at the folder-path prompt prints nothing, does not
\* terminate, and control returns to the menu.
C2_Interrupt ==
    cancelled =>
        /\ last_prompt \in {"menu", "file"} =>
              /\ pc = "exited"
              /\ exit_code = 0
              /\ out[Len(out)].msg = "farewell"
        /\ last_prompt = "folder" =>
              /\ pc = "menu"
              /\ exit_code = -1
              /\ out = <<Line("menu", 0, 0), Line("prompt_folder", 0, 0)>>

C2_Witness ==
    cancelled /\ last_prompt = "file" /\ pc = "exited" /\ exit_code = 0

\* C3 as stated: for every integer rate r, classify_sr(r) = "HI-RES" iff
\* r > 44100, and classify_sr(r) = "Standard" iff 0 < r <= 44100.
C3_StandardOnlyPositive ==
    (c_out # "unset" /\ c_in.kind = "int") =>
        /\ c_out = "HI-RES" <=> c_in.v > 44100
        /\ c_out = "Standard" <=> (0 < c_in.v /\ c_in.v <= 44100)

\* C3 amended: for every integer rate r, classify_sr(r) = "HI-RES" iff
\* r > 44100, and classify_sr(r) = "Standard" iff r <= 44100 (a rate of 0 or
\* below is Standard).
C3_Classify ==
    (c_out # "unset" /\ c_in.kind = "int") =>
        /\ c_out = "HI-RES" <=> c_in.v > 44100
        /\ c_out = "Standard" <=> c_in.v <= 44100

C3_Witness ==
    c_in.kind = "int" /\ c_in.v <= 0 /\ c_out = "Standard"

\* the flows' half of C4: a file whose probe result is absent gets the
\* failure tag, no category line, and no increment of either counter
AbsentReportedFailed ==
    /\ (flow = "single" /\ probes = 1 /\ probe_res.kind = "none") =>
          /\ Has(out, "Failed")
          /\ ~Has(out, "Standard") /\ ~Has(out, "HI-RES")
          /\ ~Has(out, "info_standard") /\ ~Has(out, "congrats_hires")
    /\ (flow = "folder") =>
          /\ \A k \in 1..Len(results) :
                results[k].sr.kind = "none" =>
                    /\ \E j \in 1..Len(out) :
                          out[j].msg = "Failed" /\ out[j].file = results[k].file
                    /\ ~\E j \in 1..Len(out) :
                          /\ out[j].msg \in {"Standard", "HI-RES"}
                          /\ out[j].file = results[k].file
          /\ total_valid =
                Cardinality({ k \in 1..Len(results) : results[k].sr.kind # "none" })

\* C4: an absent probe result never yields a category: classify_sr of an
\* absent rate is not "Standard", and in both flows a file whose probe result
\* is absent is reported with the failure tag, never as Standard, and is not
\* counted as valid or HI-RES.
C4_AbsentNeverStandard ==
    /\ (c_out # "unset" /\ c_in.kind = "none") => c_out # "Standard"
    /\ AbsentReportedFailed

InvalidPath ==
    /\ last_prompt \in {"file", "folder"}
    /\ ~cancelled
    /\ \/ path = <<>>
       \/ last_prompt = "file" /\ ~is_file(path)
       \/ last_prompt = "folder" /\ ~is_dir(path)

\* C5: in both sub-flows a path that is empty, non-existent or of the wrong
\* type causes an error message to be printed, no probe to be invoked, and
\* control to return to the menu.
C5_InvalidPathReported ==
    InvalidPath =>
        /\ \/ Has(out, "error_empty_path")
           \/ Has(out, "error_no_file")
           \/ Has(out, "error_not_dir")
        /\ probes = 0
        /\ pc = "menu"

\* C6: from MENU, choice "1" enters the single-file flow, "2" the folder flow,
\* "0" terminates, anything else prints a warning and stays in MENU; a
\* sub-flow that completes returns to MENU; EXIT is terminal: no step is
\* taken after it.
C6_StateMachine ==
    [][ /\ pc = "menu" =>
              /\ last_prompt' = "menu"
              /\ ~cancelled' =>
                    /\ choice' = <<"1">> => pc' = "single_path" /\ flow' = "single"
                    /\ choice' = <<"2">> => pc' = "folder_path" /\ flow' = "folder"
                    /\ choice' = <<"0">> => pc' = "exited" /\ exit_code' = 0
                    /\ choice' \notin {<<"0">>, <<"1">>, <<"2">>} =>
                          pc' = "menu" /\ Has(out', "invalid_choice")
        /\ pc = "single_path" =>
              /\ pc' \in {"menu", "exited"}
              /\ pc' = "exited" => cancelled' \/ probe_res'.kind = "raise"
        /\ pc = "folder_path" => pc' \in {"menu", "scan"}
        /\ pc = "scan" =>
              /\ pc' \in {"scan", "menu", "exited"}
              /\ pc' = "menu" => i' = Len(audio_files) /\ Has(out', "done")
              /\ pc' = "exited" => probe_res'.kind = "raise"
        /\ pc # "exited"
      ]_vars

C6_Witness ==
    pc = "menu" /\ flow = "folder" /\ Has(out, "done")

\* the probe outcomes C7 names: no probe yet, tool missing, tool error,
\* unparsable output, incomplete output, or a rate
NamedOutcome(o) ==
    \/ o.proc \in {"none", "notfound", "nonzero"}
    \/ o.proc = "ok" /\ o.top = "malformed"
    \/ o.proc = "ok" /\ o.top = "object" /\ o.streams \in {"absent", "empty"}
    \/ o.proc = "ok" /\ o.top = "object" /\ o.streams = "objects" /\ o.field = "absent"
    \/ NumericField(o)

\* C7: during a folder scan a probe failure of any kind never aborts the
\* scan: every discovered file is processed exactly once in ascending path
\* order, each failed file produces a failed-file line, and the scan reaches
\* the summary.
C7_ScanNeverAborts ==
    (flow = "folder" /\ audio_files # <<>> /\ NamedOutcome(probe_in)) =>
        /\ pc \in {"scan", "menu"}
        /\ probes = i
        /\ Len(results) = i
        /\ \A k \in 1..Len(results) :
              /\ results[k].file = audio_files[k]
              /\ results[k].sr.kind = "none" =>
                    \E j \in 1..Len(out) :
                        out[j].msg = "Failed" /\ out[j].file = audio_files[k]
        /\ pc = "menu" => i = Len(audio_files) /\ Has(out, "done")

\* C8: if the pre-flight check finds ffprobe unavailable the program prints
\* an error and terminates with status 1 without displaying the menu or
\* reading input; the menu loop runs only after the check succeeded; an exit
\* from the menu gives status 0.
C8_Preflight ==
    /\ preflight \in {"nonzero", "notfound"} =>
          /\ pc = "exited"
          /\ exit_code = 1
          /\ out = <<Line("ffprobe_missing", 0, 0)>>
          /\ last_prompt = "none"
    /\ (pc \in Running \/ last_prompt # "none") => preflight = "ok"
    /\ (pc = "exited" /\ last_prompt = "menu") => exit_code = 0

C8_Witness ==
    preflight = "notfound" /\ pc = "exited" /\ exit_code = 1

Absent == { k \in 1..Len(results) : results[k].sr.kind = "none" }

\* C9: at the end of a folder scan that discovered at least one file, the
\* failure-count line is printed iff discovered - valid > 0, and the number it
\* shows is the number of files whose probe result was absent.
C9_FailureLine ==
    (pc = "menu" /\ flow = "folder" /\ Has(out, "done")) =>
        /\ Has(out, "failed_count") <=> Len(audio_files) - total_valid > 0
        /\ \A k \in 1..Len(out) :
              out[k].msg = "failed_count" => out[k].n = Cardinality(Absent)

C9_Witness ==
    /\ pc = "menu" /\ flow = "folder" /\ Has(out, "done")
    /\ Has(out, "failed_count")
    /\ total_valid > 0

\* C10: after i files of a folder scan have been processed,
\* 0 <= hi_res_count <= total_valid <= i <= N, total_valid is the number of
\* the first i files whose probe returned a rate, and hi_res_count the number
\* of those whose rate is > 44100, which are those classify_sr calls HI-RES.
C10_LoopInvariant ==
    (flow = "folder" /\ audio_files # <<>>) =>
        LET valid == { k \in 1..i : results[k].sr.kind = "int" }
        IN /\ 0 <= hi_res_count /\ hi_res_count <= total_valid
           /\ total_valid <= i /\ i <= Len(audio_files)
           /\ total_valid = Cardinality(valid)
           /\ hi_res_count = Cardinality({ k \in valid : results[k].sr.v > 44100 })
           /\ hi_res_count =
                 Cardinality({ k \in valid : classify_sr(results[k].sr) = "HI-RES" })

C10_Witness ==
    /\ flow = "folder" /\ i = Len(audio_files) /\ i >= 2
    /\ \E k \in 1..i : results[k].sr.kind = "int" /\ results[k].sr.v <= 0
    /\ hi_res_count >= 1 /\ hi_res_count < total_valid

====
